---- MODULE Spec2Model ----
(***************************************************************************)
(* Model of the poll-site district checker: src/script.py (first version)  *)
(* and src/script2.py (second version, with column detection and value     *)
(* normalisation).                                                         *)
(*                                                                         *)
(* Text is modelled as a sequence of one-character strings.  A CJK         *)
(* character is written as its code point, e.g. "U95E8" for U+95E8.        *)
(***************************************************************************)
EXTENDS Integers, Sequences, FiniteSets, TLC

VARIABLES
    \* ---- the script (the state of one run)
    script,         \* 1: script.py, 2: script2.py
    pc,             \* position in the script
    file_path,      \* the selected workbook
    existing,       \* the paths for which os.path.exists is true
    columns,        \* df.columns
    df,             \* the table, a sequence of rows (header -> cell)
    df_in,          \* the table as the row loop received it
    house_col, street_col, zip_col,
    index, row,
    house_number, street_name, zip_code,
    page,           \* what the site shows for the current row
    site_data,
    exc,            \* the exception being handled
    invalid_rows,
    visited,        \* the rows for which the driver was used
    log,            \* what was printed, one tag per message
    output_path, i,
    written,        \* the paths df.to_excel wrote
    \* ---- value normalizer harness (script2.py:82-121)
    nz_pc, nz_x, nz_fn, nz_once, nz_twice,
    \* ---- column resolver harness (script2.py:58-80, 152-154)
    cr_pc, cr_columns, cr_field, cr_exact, cr_regex, cr_regex_called, cr_col

pg_vars == <<script, pc, file_path, existing, columns, df, df_in,
             house_col, street_col, zip_col, index, row,
             house_number, street_name, zip_code, page, site_data, exc,
             invalid_rows, visited, log, output_path, i, written>>
nz_vars == <<nz_pc, nz_x, nz_fn, nz_once, nz_twice>>
cr_vars == <<cr_pc, cr_columns, cr_field, cr_exact, cr_regex, cr_regex_called, cr_col>>
vars == <<pg_vars, nz_vars, cr_vars>>

(***************************************************************************)
(* Bounds of the model.                                                    *)
(***************************************************************************)
MaxLen == 6
MaxHeaders == 2
MaxRows == 2
MaxExisting == 3

(***************************************************************************)
(* Characters and the str methods the scripts use.                         *)
(***************************************************************************)
Digits == <<"0", "1", "2", "3", "4", "5", "6", "7", "8", "9">>
UpperLetters == <<"A", "B", "C", "D", "E", "F", "G", "H", "I", "J", "K", "L", "M",
                  "N", "O", "P", "Q", "R", "S", "T", "U", "V", "W", "X", "Y", "Z">>
LowerLetters == <<"a", "b", "c", "d", "e", "f", "g", "h", "i", "j", "k", "l", "m",
                  "n", "o", "p", "q", "r", "s", "t", "u", "v", "w", "x", "y", "z">>
Whitespace == {" ", "\t", "\n"}

Range(s) == {s[k] : k \in 1..Len(s)}
IsDigit(c) == c \in Range(Digits)
IsSpace(c) == c \in Whitespace

\* str.upper() / str.lower(), one character
UpperChar(c) ==
    IF c \in Range(LowerLetters)
    THEN UpperLetters[CHOOSE k \in 1..26 : LowerLetters[k] = c]
    ELSE c
LowerChar(c) ==
    IF c \in Range(UpperLetters)
    THEN LowerLetters[CHOOSE k \in 1..26 : UpperLetters[k] = c]
    ELSE c
upper(s) == [k \in 1..Len(s) |-> UpperChar(s[k])]
lower(s) == [k \in 1..Len(s) |-> LowerChar(s[k])]

RECURSIVE lstrip(_)
lstrip(s) ==
    IF s = <<>> THEN s
    ELSE IF IsSpace(Head(s)) THEN lstrip(Tail(s)) ELSE s
RECURSIVE rstrip(_)
rstrip(s) ==
    IF s = <<>> THEN s
    ELSE IF IsSpace(s[Len(s)]) THEN rstrip(SubSeq(s, 1, Len(s) - 1)) ELSE s
\* str.strip()
strip(s) == rstrip(lstrip(s))

\* str.zfill(width): pad with "0" on the left, after a leading sign
zfill(s, width) ==
    IF Len(s) >= width THEN s
    ELSE LET pad == [k \in 1..(width - Len(s)) |-> "0"]
         IN  IF s # <<>> /\ Head(s) \in {"+", "-"}
             THEN <<Head(s)>> \o pad \o Tail(s)
             ELSE pad \o s

\* re.sub(r"\s+", " ", s)
RECURSIVE sub_ws(_)
sub_ws(s) ==
    IF s = <<>> THEN <<>>
    ELSE IF IsSpace(Head(s)) THEN <<" ">> \o sub_ws(lstrip(Tail(s)))
    ELSE <<Head(s)>> \o sub_ws(Tail(s))

\* re.sub(r"\.0$", "", s); "$" also matches just before a final newline
sub_dot0(s) ==
    LET n == Len(s)
    IN  IF n >= 2 /\ s[n - 1] = "." /\ s[n] = "0" THEN SubSeq(s, 1, n - 2)
        ELSE IF n >= 3 /\ s[n - 2] = "." /\ s[n - 1] = "0" /\ s[n] = "\n"
             THEN SubSeq(s, 1, n - 3) \o <<"\n">>
        ELSE s

\* re.sub(r"[^\d]", "", s)
sub_nondigit(s) == SelectSeq(s, IsDigit)

\* str(n) for an integer n
RECURSIVE DecStr(_)
DecStr(n) ==
    IF n < 0 THEN <<"-">> \o DecStr(0 - n)
    ELSE IF n < 10 THEN <<Digits[n + 1]>>
    ELSE DecStr(n \div 10) \o <<Digits[(n % 10) + 1]>>

(***************************************************************************)
(* Cell values.  A cell is absent (None), pandas NaN, an int, a float      *)
(* (whole + tenth/10, non-negative) or text.                               *)
(***************************************************************************)
None == [kind |-> "none"]
NaN == [kind |-> "nan"]
IntCell(n) == [kind |-> "int", n |-> n]
FloatCell(w, t) == [kind |-> "float", whole |-> w, tenth |-> t]
Str(s) == [kind |-> "str", s |-> s]

\* str(x) as Python prints the value
str(x) ==
    CASE x.kind = "none" -> <<"N", "o", "n", "e">>
      [] x.kind = "nan" -> <<"n", "a", "n">>
      [] x.kind = "int" -> DecStr(x.n)
      [] x.kind = "float" -> DecStr(x.whole) \o <<".">> \o DecStr(x.tenth)
      [] x.kind = "str" -> x.s

\* pd.isna / pd.notna on a scalar
isna(x) == x.kind \in {"none", "nan"}

safe_text(x) ==
    IF x.kind = "none" THEN <<>>
    ELSE IF isna(x) THEN <<>>
    ELSE IF x.kind = "int" THEN str(x)
    ELSE IF x.kind = "float"
         THEN IF x.tenth = 0 THEN DecStr(x.whole) ELSE str(x)
    ELSE str(x)

clean_house(x) ==
    LET s1 == strip(safe_text(x))
        s2 == sub_dot0(s1)
    IN  sub_ws(s2)

clean_street(x) ==
    LET s1 == upper(strip(safe_text(x)))
    IN  sub_ws(s1)

clean_zip_nopad(x) ==
    LET s1 == strip(safe_text(x))
        s2 == sub_nondigit(s1)
    IN  IF Len(s2) >= 5 THEN SubSeq(s2, 1, 5) ELSE s2

clean_zip(x) ==
    LET s1 == strip(safe_text(x))
        s2 == sub_nondigit(s1)
        s3 == IF Len(s2) = 4 THEN zfill(s2, 5) ELSE s2
    IN  IF Len(s3) >= 5 THEN SubSeq(s3, 1, 5) ELSE s3

(***************************************************************************)
(* Column resolver (script2.py).  A regular expression is a sequence of    *)
(* tokens; matching maps a set of start positions to the set of positions  *)
(* reachable after the token, so backtracking is covered.                  *)
(***************************************************************************)
Lit(c) == [t |-> "lit", c |-> c]
Opt(c) == [t |-> "opt", c |-> c]
Alt(ss) == [t |-> "alt", ss |-> ss]
WB == [t |-> "wb"]
WsStar == [t |-> "ws*"]
WsOrEnd == [t |-> "ws|$"]

CJK == {"U95E8", "U724C", "U53F7", "U7801", "U8857", "U9053", "U540D", "U79F0",
        "U90AE", "U653F", "U7F16"}
\* \w of a str pattern: letters (CJK included), digits, underscore
IsWord(c) ==
    c \in Range(LowerLetters) \cup Range(UpperLetters) \cup Range(Digits)
          \cup {"_"} \cup CJK

\* s[p..] starts with the literal text w
StartsAt(s, p, w) ==
    /\ p + Len(w) - 1 <= Len(s)
    /\ \A k \in 1..Len(w) : s[p + k - 1] = w[k]

\* the positions reachable from a position of P by matching one token
Advance(tok, s, P) ==
    CASE tok.t = "lit" -> {p + 1 : p \in {q \in P : q <= Len(s) /\ s[q] = tok.c}}
      [] tok.t = "opt" ->
            P \cup {p + 1 : p \in {q \in P : q <= Len(s) /\ s[q] = tok.c}}
      [] tok.t = "alt" ->
            UNION {{p + Len(w) : p \in {q \in P : StartsAt(s, q, w)}} : w \in tok.ss}
      [] tok.t = "wb" ->
            {p \in P : (p > 1 /\ IsWord(s[p - 1])) # (p <= Len(s) /\ IsWord(s[p]))}
      [] tok.t = "ws*" ->
            {q \in 1..(Len(s) + 1) :
                \E p \in P : p <= q /\ \A k \in p..(q - 1) : IsSpace(s[k])}
      [] tok.t = "ws|$" ->
            {p + 1 : p \in {q \in P : q <= Len(s) /\ IsSpace(s[q])}}
            \cup {p \in P : p = Len(s) + 1 \/ (p = Len(s) /\ s[p] = "\n")}

RECURSIVE Run(_, _, _)
Run(pat, s, P) ==
    IF pat = <<>> THEN P ELSE Run(Tail(pat), s, Advance(Head(pat), s, P))

\* re.search(pat, s) finds a match
search(pat, s) == Run(pat, s, 1..(Len(s) + 1)) # {}

\* re.sub(r"\(.*?\)", "", s): each "(" up to the nearest ")" after it
RECURSIVE sub_parens(_)
sub_parens(s) ==
    LET opens == {a \in 1..Len(s) : s[a] = "("}
    IN  IF opens = {} THEN s
        ELSE LET lo == CHOOSE a \in opens : \A b \in opens : a <= b
                 closes == {j \in (lo + 1)..Len(s) :
                               /\ s[j] = ")"
                               /\ \A k \in (lo + 1)..(j - 1) : s[k] # "\n"}
             IN  IF closes = {}
                 THEN SubSeq(s, 1, lo) \o sub_parens(SubSeq(s, lo + 1, Len(s)))
                 ELSE LET hi == CHOOSE a \in closes : \A b \in closes : a <= b
                      IN  SubSeq(s, 1, lo - 1) \o sub_parens(SubSeq(s, hi + 1, Len(s)))

\* str.replace("/", " ")
replace_slash(s) == [k \in 1..Len(s) |-> IF s[k] = "/" THEN " " ELSE s[k]]

norm_keep_symbols(s) ==
    LET s1 == lower(strip(sub_ws(s)))
        s2 == sub_parens(s1)
    IN  replace_slash(s2)

EXACT_NAMES ==
    [ house |->
        << <<"H", "O", "U", "S", "E", " ", "#">>,
           <<"H", "O", "U", "S", "E", "#">>,
           <<"H", "O", "U", "S", "E", " ", "N", "U", "M", "B", "E", "R">>,
           <<"H", "O", "U", "S", "E", " ", "N", "O">>,
           <<"H", "O", "U", "S", "E", " ", "N", "O", ".">>,
           <<"H", "o", "u", "s", "e", " ", "N", "u", "m", "b", "e", "r", " ", "(", "e", "x", ":", " ", "3", "5", "1", "4", ")", " ", "/", " ", "U95E8", "U724C", "U53F7", "U7801">>,
           <<"H", "o", "u", "s", "e", " ", "N", "u", "m", "b", "e", "r", " ", "/", " ", "U95E8", "U724C", "U53F7", "U7801">>,
           <<"H", "o", "u", "s", "e", " ", "N", "u", "m", "b", "e", "r", " ", "/", " ", "U95E8", "U724C", "U53F7">> >>,
      street |->
        << <<"S", "T", "R", "E", "E", "T", " ", "N", "A", "M", "E">>,
           <<"S", "T", "R", "E", "E", "T">>,
           <<"S", "t", "r", "e", "e", "t", " ", "N", "a", "m", "e", " ", "(", "e", "x", ":", " ", "1", "9", "T", "h", " ", "A", "v", "e", ")", " ", "/", " ", "U8857", "U9053", "U540D", "U79F0">> >>,
      zip |->
        << <<"Z", "I", "P", " ", "C", "O", "D", "E">>,
           <<"Z", "i", "p", " ", "C", "o", "d", "e", " ", "(", "E", "x", ":", " ", "1", "1", "2", "0", "4", ")", " ", "/", " ", "U90AE", "U653F", "U7F16", "U7801">> >> ]

REQUIRED_PATTERNS ==
    [ house |->
        << <<WB, Lit("h"), Lit("o"), Lit("u"), Lit("s"), Lit("e"), WsStar, Lit("n"), Lit("u"), Lit("m"), Lit("b"), Lit("e"), Lit("r"), WB>>,
           <<WB, Lit("h"), Lit("o"), Lit("u"), Lit("s"), Lit("e"), WsStar, Lit("#"), WsOrEnd>>,
           <<WB, Lit("h"), Lit("o"), Lit("u"), Lit("s"), Lit("e"), WsStar, Lit("n"), Lit("o"), Opt("."), WB>>,
           <<Lit("U95E8"), Lit("U724C"), Alt({<<"U53F7">>, <<"U53F7", "U7801">>})>> >>,
      street |->
        << <<WB, Lit("s"), Lit("t"), Lit("r"), Lit("e"), Lit("e"), Lit("t"), WsStar, Lit("n"), Lit("a"), Lit("m"), Lit("e"), WB>>,
           <<WB, Lit("s"), Lit("t"), Lit("r"), Lit("e"), Lit("e"), Lit("t"), WB>>,
           <<WB, Lit("s"), Lit("t"), Opt("."), WB>>,
           <<Lit("U8857"), Lit("U9053"), Lit("U540D"), Lit("U79F0")>>,
           <<Lit("U8857"), Lit("U9053")>> >>,
      zip |->
        << <<WB, Lit("z"), Lit("i"), Lit("p"), WsStar, Lit("c"), Lit("o"), Lit("d"), Lit("e"), WB>>,
           <<WB, Lit("z"), Lit("i"), Lit("p"), WB>>,
           <<WB, Lit("p"), Lit("o"), Lit("s"), Lit("t"), Lit("a"), Lit("l"), WsStar, Lit("c"), Lit("o"), Lit("d"), Lit("e"), WB>>,
           <<Lit("U90AE"), Lit("U653F"), Lit("U7F16"), Lit("U7801")>> >> ]

ResolverHeaders ==
    { <<"H", "O", "U", "S", "E", " ", "#">>,
      <<" ", "h", "o", "u", "s", "e", " ", "n", "u", "m", "b", "e", "r", " ">>,
      <<"H", "o", "u", "s", "e", " ", " ", "N", "o", ".">>,
      <<"U95E8", "U724C", "U53F7", "U7801">>,
      <<"S", "t", "r", "e", "e", "t">>,
      <<"S", "t", ".">>,
      <<"S", "t", "r", "e", "e", "t", " ", " ", "N", "a", "m", "e", " ", "(", "e", "x", ":", " ", "1", "9", "T", "h", " ", "A", "v", "e", ")">>,
      <<"U8857", "U9053">>,
      <<"z", "i", "p", " ", "c", "o", "d", "e">>,
      <<"Z", "I", "P">>,
      <<"m", "y", " ", "z", "i", "p">>,
      <<"P", "o", "s", "t", "a", "l", "/", "C", "o", "d", "e">>,
      <<"N", "a", "m", "e">> }

\* A column result: <<>> is Python's None, <<col>> is the header col.
NoCol == <<>>
Truthy(r) == r # NoCol /\ r[1] # <<>>
\* Python's "a or b"
Or(a, b) == IF Truthy(a) THEN a ELSE b

RECURSIVE find_exact_from(_, _, _)
find_exact_from(cols, target, k) ==
    IF k > Len(cols) THEN NoCol
    ELSE IF lower(strip(cols[k])) \in target THEN <<cols[k]>>
    ELSE find_exact_from(cols, target, k + 1)

find_exact(cols, names) ==
    LET target == {lower(strip(names[n])) : n \in 1..Len(names)}
    IN  find_exact_from(cols, target, 1)

\* the rank of the first pattern that matches c, or -1 (the inner loop and its break)
RECURSIVE first_rank(_, _, _)
first_rank(patterns, c, rank) ==
    IF rank >= Len(patterns) THEN -1
    ELSE IF search(patterns[rank + 1], c) THEN rank
    ELSE first_rank(patterns, c, rank + 1)

\* (rank, -len) tuples compared as Python compares tuples
KeyLess(a, b) == a[1] < b[1] \/ (a[1] = b[1] /\ a[2] < b[2])

\* the first matching column wins, whatever its key
RECURSIVE find_regex_from_first(_, _, _, _)
find_regex_from_first(cols, patterns, k, best) ==
    IF k > Len(cols) THEN (IF best = <<>> THEN NoCol ELSE <<best[2]>>)
    ELSE LET col == cols[k]
             c == norm_keep_symbols(col)
             rank == first_rank(patterns, c, 0)
             key == <<rank, 0 - Len(c)>>
         IN  IF rank >= 0 /\ best = <<>>
             THEN find_regex_from_first(cols, patterns, k + 1, <<key, col>>)
             ELSE find_regex_from_first(cols, patterns, k + 1, best)

\* best is <<>> (None) or <<key, col>>
RECURSIVE find_regex_from(_, _, _, _)
find_regex_from(cols, patterns, k, best) ==
    IF k > Len(cols) THEN (IF best = <<>> THEN NoCol ELSE <<best[2]>>)
    ELSE LET col == cols[k]
             c == norm_keep_symbols(col)
             rank == first_rank(patterns, c, 0)
             key == <<rank, 0 - Len(c)>>
         IN  IF rank >= 0 /\ (best = <<>> \/ KeyLess(key, best[1]))
             THEN find_regex_from(cols, patterns, k + 1, <<key, col>>)
             ELSE find_regex_from(cols, patterns, k + 1, best)

find_regex(cols, patterns) == find_regex_from(cols, patterns, 1, <<>>)

Fields == {"house", "street", "zip"}

(***************************************************************************)
(* The scripts.  script.py and script2.py are the same program in two      *)
(* versions; "script" selects the version a run executes.                  *)
(***************************************************************************)
HOUSE == <<"H", "O", "U", "S", "E", " ", "#">>
STREET_NAME == <<"S", "T", "R", "E", "E", "T", " ", "N", "A", "M", "E">>
ZIP_CODE == <<"Z", "I", "P", " ", "C", "O", "D", "E">>
AD == <<"A", "D">>
ED == <<"E", "D">>
OUTPUT_COLS ==
    << AD, ED, <<"C", "o", "n", "g", " ", "D">>, <<"S", "D">>,
       <<"C", "o", "u", "n", "c", "i", "l", " ", "D">>, <<"J", "D">> >>
OutSet == Range(OUTPUT_COLS)
XLSX == <<".", "x", "l", "s", "x">>
EmptyStr == Str(<<>>)

\* a name that is not bound yet
Unbound == [kind |-> "unbound"]
NoExc == [type |-> "none", arg |-> <<>>]
KeyError(key) == [type |-> "KeyError", arg |-> key]
DriverErrors ==
    { [type |-> "TimeoutException", arg |-> <<>>],
      [type |-> "WebDriverException", arg |-> <<>>] }
\* no result element on the page
NoElems == [f \in OutSet |-> None]
\* page.row: the row the driver last worked for; loaded: the site answered
NoPage == [row |-> -1, loaded |-> FALSE, msg |-> None, elems |-> NoElems]

\* row.get(col, default)
RowGet(r, col, default) == IF col \in DOMAIN r THEN r[col] ELSE default

\* The three reads at the top of the try block.  script.py indexes the row by
\* the literal headers and raises KeyError at the first one that is missing,
\* leaving the later names as they were; script2.py cleans row.get(col, "").
read_cells(s, r, hc, sc, zc, h0, s0, z0) ==
    IF s = 1
    THEN LET hk == HOUSE \in DOMAIN r
             sk == hk /\ STREET_NAME \in DOMAIN r
             zk == sk /\ ZIP_CODE \in DOMAIN r
         IN  [ house |-> IF hk THEN Str(strip(str(r[HOUSE]))) ELSE h0,
               street |-> IF sk THEN Str(strip(str(r[STREET_NAME]))) ELSE s0,
               zip |-> IF zk THEN Str(strip(str(r[ZIP_CODE]))) ELSE z0,
               exc |-> IF ~hk THEN KeyError(HOUSE)
                       ELSE IF ~sk THEN KeyError(STREET_NAME)
                       ELSE IF ~zk THEN KeyError(ZIP_CODE)
                       ELSE NoExc ]
    ELSE [ house |-> Str(clean_house(RowGet(r, hc[1], EmptyStr))),
           street |-> Str(clean_street(RowGet(r, sc[1], EmptyStr))),
           zip |-> Str(clean_zip(RowGet(r, zc[1], EmptyStr))),
           exc |-> NoExc ]

\* not all([house_number, street_name, zip_code])
missing_address(h, s, z) == h.s = <<>> \/ s.s = <<>> \/ z.s = <<>>

\* safe_get_text: the stripped text of the element, "" when the element is
\* absent (find_element raises) or has no text
safe_get_text(elem) == IF elem.kind = "none" THEN <<>> ELSE strip(elem.s)

\* s.split("/")[0]
RECURSIVE split0(_)
split0(s) ==
    IF s = <<>> \/ Head(s) = "/" THEN <<>> ELSE <<Head(s)>> \o split0(Tail(s))

scrape(elems) ==
    [f \in OutSet |->
        IF f = ED THEN split0(safe_get_text(elems[f])) ELSE safe_get_text(elems[f])]

\* all(v for v in site_data.values()): the "not" is lost
all_nonempty(sd) == \A f \in OutSet : sd[f] # <<>>

\* all(not v for v in site_data.values())
all_empty(sd) == \A f \in OutSet : sd[f] = <<>>

\* the existing value of an output field as the script compares it
excel_val(s, r, field, site_val) ==
    IF s = 1
    THEN IF ~isna(r[field]) THEN zfill(str(r[field]), Len(site_val)) ELSE <<>>
    ELSE strip(safe_text(RowGet(r, field, EmptyStr)))

\* the comparison inverted
differs_inverted(excel, site_val) == excel = site_val

\* the comparison that decides an update: excel_val != site_val
differs(excel, site_val) == excel # site_val

\* The compare-and-update loop from field k on.  script.py raises KeyError at
\* a field that is no column, after the earlier fields were written.
RECURSIVE update_from(_, _, _, _, _, _)
update_from(s, r, sd, d, idx, k) ==
    IF k > Len(OUTPUT_COLS) THEN [df |-> d, exc |-> NoExc, updated |-> <<>>]
    ELSE LET field == OUTPUT_COLS[k]
         IN  IF s = 1 /\ field \notin DOMAIN r
             THEN [df |-> d, exc |-> KeyError(field), updated |-> <<>>]
             ELSE LET ch == differs(excel_val(s, r, field, sd[field]), sd[field])
                      d2 == IF ch THEN [d EXCEPT ![idx + 1][field] = Str(sd[field])]
                            ELSE d
                      rest == update_from(s, r, sd, d2, idx, k + 1)
                  IN  [ df |-> rest.df, exc |-> rest.exc,
                        updated |-> (IF ch THEN <<field>> ELSE <<>>) \o rest.updated ]

\* an Invalid Row Entry
Entry(idx, h, s, z, reason) ==
    [row |-> idx, house |-> h.s, street |-> s.s, zip |-> z.s, reason |-> reason]

\* os.path.splitext(p)[0]: p up to the last dot of its last component,
\* leading dots of the component not counted
splitext_root(p) ==
    LET seps == {k \in 1..Len(p) : p[k] = "/"}
        start == IF seps = {} THEN 1
                 ELSE (CHOOSE a \in seps : \A b \in seps : a >= b) + 1
        dots == {k \in (start + 1)..Len(p) :
                    p[k] = "." /\ \E m \in start..(k - 1) : p[m] # "."}
    IN  IF dots = {} THEN p
        ELSE SubSeq(p, 1, (CHOOSE a \in dots : \A b \in dots : a >= b) - 1)

base_name == splitext_root(file_path)

Suffix(s) ==
    IF s = 1 THEN <<"_", "c", "o", "r", "r", "e", "c", "t", "e", "d">>
    ELSE <<"_", "w", "i", "t", "h", "_", "d", "i", "s", "t", "r", "i", "c", "t", "s">>

\* f"{base_name}_corrected.xlsx" / f"{base_name}_with_districts.xlsx"
first_path(s, base) == base \o Suffix(s) \o XLSX

\* the first numbered name is "(2)"
numbered_path_skip(s, base, n) ==
    base \o Suffix(s) \o <<"(">> \o DecStr(n + 1) \o <<")">> \o XLSX

\* f"{base_name}_corrected({i}).xlsx" / f"{base_name}_with_districts({i}).xlsx"
numbered_path(s, base, n) ==
    base \o Suffix(s) \o <<"(">> \o DecStr(n) \o <<")">> \o XLSX

os_path_exists(p) == p \in existing

PgIdle ==
    /\ script = 0
    /\ pc = "idle"
    /\ file_path = <<>>
    /\ existing = {}
    /\ columns = <<>>
    /\ df = <<>>
    /\ df_in = <<>>
    /\ house_col = <<>>
    /\ street_col = <<>>
    /\ zip_col = <<>>
    /\ index = -1
    /\ row = <<>>
    /\ house_number = Unbound
    /\ street_name = Unbound
    /\ zip_code = Unbound
    /\ page = NoPage
    /\ site_data = <<>>
    /\ exc = NoExc
    /\ invalid_rows = <<>>
    /\ visited = {}
    /\ log = <<>>
    /\ output_path = <<>>
    /\ i = 0
    /\ written = <<>>

NzIdle ==
    /\ nz_pc = "idle"
    /\ nz_x = None
    /\ nz_fn = "none"
    /\ nz_once = <<>>
    /\ nz_twice = <<>>

CrIdle ==
    /\ cr_pc = "idle"
    /\ cr_columns = <<>>
    /\ cr_field = "none"
    /\ cr_exact = <<>>
    /\ cr_regex = <<>>
    /\ cr_regex_called = FALSE
    /\ cr_col = <<>>

(***************************************************************************)
(* Inputs: the workbook, the files that exist, and what the site answers.  *)
(***************************************************************************)
ALL_HEADERS == <<HOUSE, STREET_NAME, ZIP_CODE>> \o OUTPUT_COLS
HouseNumberHdr == <<" ", "h", "o", "u", "s", "e", " ", "n", "u", "m", "b", "e", "r", " ">>
StHdr == <<"S", "t", ".">>
ZipHdr == <<"Z", "I", "P">>
InputHeaderLists ==
    { ALL_HEADERS,
      <<HOUSE, ZIP_CODE>> \o OUTPUT_COLS,
      <<HOUSE, STREET_NAME, ZIP_CODE, AD>>,
      <<HouseNumberHdr, StHdr, ZipHdr>> }

InputTriples ==
    { [house |-> Str(<<"1", "2">>), street |-> Str(<<"a">>), zip |-> Str(<<"1", "1", "2", "0">>)],
      [house |-> NaN, street |-> Str(<<"a">>), zip |-> Str(<<"1", "1", "2", "0">>)],
      [house |-> Str(<<"1", "2">>), street |-> Str(<<"a">>), zip |-> Str(<<" ">>)] }
OutputFills == {NaN, Str(<<"1">>), Str(<<" ", "1">>)}

MakeRow(cols, inp, fill) ==
    [c \in Range(cols) |->
        IF c \in {HOUSE, HouseNumberHdr} THEN inp.house
        ELSE IF c \in {STREET_NAME, StHdr} THEN inp.street
        ELSE IF c \in {ZIP_CODE, ZipHdr} THEN inp.zip
        ELSE fill]

InputRows(cols) == {MakeRow(cols, inp, fill) : inp \in InputTriples, fill \in OutputFills}
InputTables(cols) == UNION {[1..n -> InputRows(cols)] : n \in 0..MaxRows}

InputFile == <<"v", ".", "x", "l", "s", "x">>

SitePages ==
    { \* the site flags the address
      [msg |-> Str(<<" ", "b", "a", "d">>), elems |-> NoElems],
      \* no message, no result element
      [msg |-> None, elems |-> NoElems],
      \* a blank message; the only result text is "/5" in the election district
      [msg |-> Str(<<" ">>), elems |-> [NoElems EXCEPT ![ED] = Str(<<"/", "5">>)]],
      \* a full result
      [msg |-> None,
       elems |-> [f \in OutSet |->
                    IF f = AD THEN Str(<<"0", "1">>)
                    ELSE IF f = ED THEN Str(<<"1", "/", "2">>)
                    ELSE Str(<<" ", "1", " ">>)]],
      \* only the assembly district
      [msg |-> None, elems |-> [NoElems EXCEPT ![AD] = Str(<<"2">>)]] }

(***************************************************************************)
(* The run.                                                                *)
(***************************************************************************)
Init ==
    /\ script \in {1, 2}
    /\ pc = IF script = 1 THEN "loop" ELSE "detect"
    /\ file_path = InputFile
    /\ existing = {file_path, first_path(script, splitext_root(file_path))}
    /\ columns \in InputHeaderLists
    /\ df \in InputTables(columns)
    /\ df_in = df
    /\ house_col = NoCol
    /\ street_col = NoCol
    /\ zip_col = NoCol
    /\ index = -1
    /\ row = <<>>
    /\ house_number = Unbound
    /\ street_name = Unbound
    /\ zip_code = Unbound
    /\ page = NoPage
    /\ site_data = <<>>
    /\ exc = NoExc
    /\ invalid_rows = <<>>
    /\ visited = {}
    /\ log = <<>>
    /\ output_path = <<>>
    /\ i = 0
    /\ written = <<>>
    /\ NzIdle
    /\ CrIdle

\* script2.py:152-170: detect the required columns, stop when one is missing,
\* add the missing output columns with empty text
DetectColumns ==
    /\ pc = "detect"
    /\ house_col' = Or(find_exact(columns, EXACT_NAMES.house),
                       find_regex(columns, REQUIRED_PATTERNS.house))
    /\ street_col' = Or(find_exact(columns, EXACT_NAMES.street),
                        find_regex(columns, REQUIRED_PATTERNS.street))
    /\ zip_col' = Or(find_exact(columns, EXACT_NAMES.zip),
                     find_regex(columns, REQUIRED_PATTERNS.zip))
    /\ IF Truthy(house_col') /\ Truthy(street_col') /\ Truthy(zip_col')
       THEN LET isnew(c) == c \notin Range(columns)
                cols2 == columns \o SelectSeq(OUTPUT_COLS, isnew)
            IN  /\ columns' = cols2
                /\ df' = [n \in 1..Len(df) |->
                            [c \in Range(cols2) |->
                                IF c \in DOMAIN df[n] THEN df[n][c] ELSE EmptyStr]]
                /\ df_in' = df'
                /\ pc' = "loop"
       ELSE /\ pc' = "exit"
            /\ UNCHANGED <<columns, df, df_in>>
    /\ UNCHANGED <<script, file_path, existing, index, row, house_number,
                 street_name, zip_code, page, site_data, exc,
                 invalid_rows, visited, log, output_path, i, written,
                 nz_vars, cr_vars>>

\* for index, row in df.iterrows(): the next row, or the end of the loop
NextRow ==
    /\ pc = "loop"
    /\ index + 1 < Len(df)
    /\ index' = index + 1
    /\ row' = df[index' + 1]
    /\ IF script = 2
       THEN /\ house_number' = EmptyStr
            /\ street_name' = EmptyStr
            /\ zip_code' = EmptyStr
       ELSE UNCHANGED <<house_number, street_name, zip_code>>
    /\ pc' = "read"
    /\ UNCHANGED <<script, file_path, existing, columns, df, df_in, house_col,
                 street_col, zip_col, page, site_data, exc, invalid_rows,
                 visited, log, output_path, i, written, nz_vars, cr_vars>>

EndLoop ==
    /\ pc = "loop"
    /\ index + 1 >= Len(df)
    /\ pc' = "save"
    /\ UNCHANGED <<script, file_path, existing, columns, df, df_in, house_col,
                 street_col, zip_col, index, row, house_number,
                 street_name, zip_code, page, site_data, exc,
                 invalid_rows, visited, log, output_path, i, written,
                 nz_vars, cr_vars>>

\* the reads and the skip check
ReadCells ==
    /\ pc = "read"
    /\ LET rd == read_cells(script, row, house_col, street_col, zip_col,
                            house_number, street_name, zip_code)
       IN  /\ house_number' = rd.house
           /\ street_name' = rd.street
           /\ zip_code' = rd.zip
           /\ exc' = rd.exc
           /\ IF rd.exc # NoExc
              THEN /\ pc' = "except"
                   /\ UNCHANGED log
              ELSE IF missing_address(rd.house, rd.street, rd.zip)
              THEN /\ pc' = "loop"
                   /\ log' = Append(log, <<index, "skipped">>)
              ELSE /\ pc' = "visit"
                   /\ log' = Append(log, <<index, "checking">>)
    /\ UNCHANGED <<script, file_path, existing, columns, df, df_in, house_col,
                 street_col, zip_col, index, row, page, site_data,
                 invalid_rows, visited, output_path, i, written, nz_vars,
                 cr_vars>>

\* load the site, fill the form, click, read divMessage; any driver call may raise
VisitFault ==
    /\ pc = "visit"
    /\ \E e \in DriverErrors : exc' = e
    /\ visited' = visited \cup {index}
    /\ page' = [NoPage EXCEPT !.row = index]
    /\ pc' = "except"
    /\ UNCHANGED <<script, file_path, existing, columns, df, df_in, house_col,
                 street_col, zip_col, index, row, house_number,
                 street_name, zip_code, site_data, invalid_rows, log,
                 output_path, i, written, nz_vars, cr_vars>>

Visit ==
    /\ pc = "visit"
    /\ \E p \in SitePages :
          /\ page' = [row |-> index, loaded |-> TRUE, msg |-> p.msg, elems |-> p.elems]
          /\ visited' = visited \cup {index}
          /\ IF p.msg.kind = "str" /\ strip(p.msg.s) # <<>>
             THEN /\ invalid_rows' = Append(invalid_rows,
                        Entry(index, house_number, street_name, zip_code,
                              <<strip(p.msg.s)>>))
                  /\ log' = Append(log, <<index, "invalid">>)
                  /\ pc' = "loop"
             ELSE /\ pc' = "scrape"
                  /\ UNCHANGED <<invalid_rows, log>>
    /\ UNCHANGED <<script, file_path, existing, columns, df, df_in, house_col,
                 street_col, zip_col, index, row, house_number,
                 street_name, zip_code, site_data, exc, output_path, i,
                 written, nz_vars, cr_vars>>

\* scrape the six fields; an all-empty result is an invalid row
Scrape ==
    /\ pc = "scrape"
    /\ site_data' = scrape(page.elems)
    /\ IF all_empty(site_data')
       THEN /\ invalid_rows' = Append(invalid_rows,
                  Entry(index, house_number, street_name, zip_code,
                        <<"No polling info returned">>))
            /\ log' = Append(log, <<index, "no info">>)
            /\ pc' = "loop"
       ELSE /\ pc' = "update"
            /\ UNCHANGED <<invalid_rows, log>>
    /\ UNCHANGED <<script, file_path, existing, columns, df, df_in, house_col,
                 street_col, zip_col, index, row, house_number,
                 street_name, zip_code, page, exc, visited, output_path,
                 i, written, nz_vars, cr_vars>>

\* compare and update the six output fields
Update ==
    /\ pc = "update"
    /\ LET u == update_from(script, row, site_data, df, index, 1)
       IN  /\ df' = u.df
           /\ exc' = u.exc
           /\ log' = log \o [n \in 1..Len(u.updated) |-> <<index, "updated", u.updated[n]>>]
                         \o (IF u.exc = NoExc /\ u.updated = <<>>
                             THEN << <<index, "all correct">> >> ELSE <<>>)
           /\ pc' = IF u.exc # NoExc THEN "except" ELSE "loop"
    /\ UNCHANGED <<script, file_path, existing, columns, df_in, house_col,
                 street_col, zip_col, index, row, house_number,
                 street_name, zip_code, page, site_data, invalid_rows,
                 visited, output_path, i, written, nz_vars, cr_vars>>

\* except Exception as e: record the row; a name that was never bound raises
\* NameError out of the handler and ends the run
Except ==
    /\ pc = "except"
    /\ IF Unbound \in {house_number, street_name, zip_code}
       THEN /\ pc' = "crashed"
            /\ log' = Append(log, <<index, "error">>)
            /\ UNCHANGED invalid_rows
       ELSE /\ invalid_rows' = Append(invalid_rows,
                  Entry(index, house_number, street_name, zip_code,
                        <<"Script error: ", exc>>))
            /\ log' = Append(log, <<index, "error">>)
            /\ pc' = "loop"
    /\ UNCHANGED <<script, file_path, existing, columns, df, df_in, house_col,
                 street_col, zip_col, index, row, house_number,
                 street_name, zip_code, page, site_data, exc, visited,
                 output_path, i, written, nz_vars, cr_vars>>

\* the first candidate output path
SaveStart ==
    /\ pc = "save"
    /\ output_path' = first_path(script, base_name)
    /\ i' = 1
    /\ pc' = "save_loop"
    /\ UNCHANGED <<script, file_path, existing, columns, df, df_in, house_col,
                 street_col, zip_col, index, row, house_number,
                 street_name, zip_code, page, site_data, exc,
                 invalid_rows, visited, log, written, nz_vars, cr_vars>>

\* while os.path.exists(output_path): the next numbered path
SaveRename ==
    /\ pc = "save_loop"
    /\ os_path_exists(output_path)
    /\ output_path' = numbered_path(script, base_name, i)
    /\ i' = i + 1
    /\ UNCHANGED <<script, pc, file_path, existing, columns, df, df_in,
                 house_col, street_col, zip_col, index, row,
                 house_number, street_name, zip_code, page, site_data,
                 exc, invalid_rows, visited, log, written, nz_vars,
                 cr_vars>>

\* df.to_excel(output_path)
SaveWrite ==
    /\ pc = "save_loop"
    /\ ~os_path_exists(output_path)
    /\ written' = Append(written, [path |-> output_path,
                                   existed |-> output_path \in existing])
    /\ existing' = existing \cup {output_path}
    /\ pc' = "saved"
    /\ UNCHANGED <<script, file_path, columns, df, df_in, house_col, street_col,
                 zip_col, index, row, house_number, street_name,
                 zip_code, page, site_data, exc, invalid_rows, visited,
                 log, output_path, i, nz_vars, cr_vars>>

\* the summary of invalid rows and driver.quit()
Finish ==
    /\ pc = "saved"
    /\ log' = log \o [n \in 1..Len(invalid_rows) |-> <<invalid_rows[n].row, "summary">>]
    /\ pc' = "done"
    /\ UNCHANGED <<script, file_path, existing, columns, df, df_in, house_col,
                 street_col, zip_col, index, row, house_number,
                 street_name, zip_code, page, site_data, exc,
                 invalid_rows, visited, output_path, i, written, nz_vars,
                 cr_vars>>

RowLoop ==
    \/ NextRow \/ EndLoop \/ ReadCells \/ VisitFault \/ Visit
    \/ Scrape \/ Update \/ Except
Save == SaveStart \/ SaveRename \/ SaveWrite \/ Finish

Next == DetectColumns \/ RowLoop \/ Save

Spec == Init /\ [][Next]_vars

(***************************************************************************)
(* Output path harness: the save step alone, for any set of existing       *)
(* files among the candidate names.                                        *)
(***************************************************************************)
OtherFile == <<"v", "(", "1", ")", ".", "x", "l", "s", "x">>
CandidateNames(s, base) ==
    {first_path(s, base)} \cup {numbered_path(s, base, n) : n \in 1..MaxExisting}

SaveInit ==
    /\ script \in {1, 2}
    /\ pc = "save"
    /\ file_path = InputFile
    /\ \E some \in SUBSET (CandidateNames(script, splitext_root(file_path))
                           \cup {OtherFile}) :
          existing = {file_path} \cup some
    /\ columns = ALL_HEADERS
    /\ df = <<>>
    /\ df_in = <<>>
    /\ house_col = NoCol
    /\ street_col = NoCol
    /\ zip_col = NoCol
    /\ index = -1
    /\ row = <<>>
    /\ house_number = Unbound
    /\ street_name = Unbound
    /\ zip_code = Unbound
    /\ page = NoPage
    /\ site_data = <<>>
    /\ exc = NoExc
    /\ invalid_rows = <<>>
    /\ visited = {}
    /\ log = <<>>
    /\ output_path = <<>>
    /\ i = 0
    /\ written = <<>>
    /\ NzIdle
    /\ CrIdle

SpecSave == SaveInit /\ [][Save]_vars

(***************************************************************************)
(* Normalizer harness: a cell value is cleaned once, and the result is     *)
(* cleaned again.                                                          *)
(***************************************************************************)
Alphabet == {"0", "1", ".", " ", "a"}
Texts == UNION {[1..k -> Alphabet] : k \in 0..MaxLen}
\* the worked examples of the value normalizer
ExampleTexts ==
    { <<"1", "8", "7", "6", ".", "0">>,
      <<" ", "1", "2", " ", " ", " ", "B", " ">>,
      <<"1", "1", "2", "0">>,
      <<"1", "1", "2", "0", "4", "5", "6", "7", "8">>,
      <<"a", "b", "c">>,
      <<"0", "1", "1", "2", "0">>,
      <<" ", "1", "9", "t", "h", " ", " ", "a", "v", "e", " ">> }
CellValues ==
    {None, NaN}
    \cup {IntCell(n) : n \in {0, 7, 1120, 11204, 112045}}
    \cup {FloatCell(w, t) : w \in {0, 1876, 11204}, t \in {0, 5}}
    \cup {Str(s) : s \in Texts \cup ExampleTexts}

Apply(fn, x) ==
    CASE fn = "house" -> clean_house(x)
      [] fn = "street" -> clean_street(x)
      [] fn = "zip" -> clean_zip(x)

NzInit ==
    /\ nz_pc = "input"
    /\ nz_x \in CellValues
    /\ nz_fn = "none"
    /\ nz_once = <<>>
    /\ nz_twice = <<>>
    /\ CrIdle
    /\ PgIdle

CleanOnce(fn) ==
    /\ nz_pc = "input"
    /\ nz_fn' = fn
    /\ nz_once' = Apply(fn, nz_x)
    /\ nz_pc' = "once"
    /\ UNCHANGED <<nz_x, nz_twice, cr_vars, pg_vars>>

CleanHouse == CleanOnce("house")
CleanStreet == CleanOnce("street")
CleanZip == CleanOnce("zip")

CleanAgain ==
    /\ nz_pc = "once"
    /\ nz_twice' = Apply(nz_fn, Str(nz_once))
    /\ nz_pc' = "twice"
    /\ UNCHANGED <<nz_x, nz_fn, nz_once, cr_vars, pg_vars>>

NzNext == CleanHouse \/ CleanStreet \/ CleanZip \/ CleanAgain

SpecNormalizer == NzInit /\ [][NzNext]_vars

(***************************************************************************)
(* Claims about the value normalizer.                                      *)
(***************************************************************************)
\* the digits of a text, in order (reference for clean_zip)
RECURSIVE DigitsOf(_)
DigitsOf(t) ==
    IF t = <<>> THEN <<>>
    ELSE DigitsOf(SubSeq(t, 1, Len(t) - 1))
         \o (IF IsDigit(t[Len(t)]) THEN <<t[Len(t)]>> ELSE <<>>)

ZipReference(x) ==
    LET d == DigitsOf(safe_text(x))
    IN  CASE Len(d) = 4 -> <<"0">> \o d
          [] Len(d) >= 5 -> <<d[1], d[2], d[3], d[4], d[5]>>
          [] OTHER -> d

\* C9: each of clean_house, clean_street and clean_zip is idempotent:
\* cleaning an already cleaned value returns the same value.
C9_Idempotent == nz_pc = "twice" => nz_twice = nz_once

\* C9, the part the code satisfies: clean_street and clean_zip are idempotent.
C9_StreetZipIdempotent ==
    (nz_pc = "twice" /\ nz_fn \in {"street", "zip"}) => nz_twice = nz_once

\* C10: clean_zip(x) is the reference result: with d the digits of x's text,
\* "0" + d when d has 4 digits, the first 5 digits of d when d has 5 or more,
\* d otherwise; so the result is all digits, of length 5 or at most 3.
C10_ZipReference ==
    (nz_pc \in {"once", "twice"} /\ nz_fn = "zip") =>
        /\ nz_once = ZipReference(nz_x)
        /\ \A k \in 1..Len(nz_once) : nz_once[k] \in Range(Digits)
        /\ Len(nz_once) = 5 \/ Len(nz_once) <= 3

\* a text with a non-digit and exactly four digits was padded to five
C10_Witness ==
    /\ nz_pc = "once"
    /\ nz_fn = "zip"
    /\ nz_x.kind = "str"
    /\ Len(nz_x.s) = 5
    /\ Len(DigitsOf(nz_x.s)) = 4
    /\ Len(nz_once) = 5
    /\ nz_once[1] = "0"
    /\ nz_once[2] = "1"

(***************************************************************************)
(* Resolver harness: "find_exact(...) or find_regex(...)" for one field    *)
(* of one header list; find_regex runs only when find_exact is falsy.      *)
(***************************************************************************)
RECURSIVE HeaderLists(_)
HeaderLists(n) ==
    IF n = 0 THEN {<<>>}
    ELSE LET shorter == HeaderLists(n - 1)
         IN  shorter \cup
             {Append(hs, h) : hs \in {x \in shorter : Len(x) = n - 1},
                              h \in ResolverHeaders}

CrInit ==
    /\ cr_pc = "exact"
    /\ cr_columns \in {hs \in HeaderLists(MaxHeaders) :
                          \A a, b \in 1..Len(hs) : hs[a] = hs[b] => a = b}
    /\ cr_field \in Fields
    /\ cr_exact = NoCol
    /\ cr_regex = NoCol
    /\ cr_regex_called = FALSE
    /\ cr_col = NoCol
    /\ NzIdle
    /\ PgIdle

FindExact ==
    /\ cr_pc = "exact"
    /\ cr_exact' = find_exact(cr_columns, EXACT_NAMES[cr_field])
    /\ cr_pc' = IF Truthy(cr_exact') THEN "assign" ELSE "regex"
    /\ UNCHANGED <<cr_columns, cr_field, cr_regex, cr_regex_called, cr_col, nz_vars, pg_vars>>

FindRegex ==
    /\ cr_pc = "regex"
    /\ cr_regex' = find_regex(cr_columns, REQUIRED_PATTERNS[cr_field])
    /\ cr_regex_called' = TRUE
    /\ cr_pc' = "assign"
    /\ UNCHANGED <<cr_columns, cr_field, cr_exact, cr_col, nz_vars, pg_vars>>

AssignCol ==
    /\ cr_pc = "assign"
    /\ cr_col' = Or(cr_exact, cr_regex)
    /\ cr_pc' = "done"
    /\ UNCHANGED <<cr_columns, cr_field, cr_exact, cr_regex, cr_regex_called, nz_vars, pg_vars>>

CrNext == FindExact \/ FindRegex \/ AssignCol

SpecResolver == CrInit /\ [][CrNext]_vars

(***************************************************************************)
(* Claims about the column resolver.                                       *)
(***************************************************************************)
Min(S) == CHOOSE a \in S : \A b \in S : a <= b

\* the positions of the headers equal to an alias after trimming and case-folding
ExactHits ==
    LET names == EXACT_NAMES[cr_field]
    IN  {k \in 1..Len(cr_columns) :
            \E n \in 1..Len(names) :
                lower(strip(cr_columns[k])) = lower(strip(names[n]))}

\* the 0-based ranks of the patterns the normalized header k matches
HitRanks(k) ==
    LET pats == REQUIRED_PATTERNS[cr_field]
    IN  {r \in 0..(Len(pats) - 1) :
            search(pats[r + 1], norm_keep_symbols(cr_columns[k]))}

PatternHits == {k \in 1..Len(cr_columns) : HitRanks(k) # {}}

HitKey(k) == <<Min(HitRanks(k)), 0 - Len(norm_keep_symbols(cr_columns[k]))>>

\* C8: resolution returns the first header that equals an alias (trimmed,
\* case-folded); else, among the headers matching a pattern, the one with the
\* smallest (rank of first matching pattern, -normalized length) key; else
\* not-found.  The regex pass runs only when the exact pass finds nothing.
C8_Resolution ==
    cr_pc = "done" =>
        IF ExactHits # {}
        THEN /\ cr_col = <<cr_columns[Min(ExactHits)]>>
             /\ ~cr_regex_called
        ELSE IF PatternHits # {}
        THEN /\ cr_regex_called
             /\ \E k \in PatternHits :
                    /\ cr_col = <<cr_columns[k]>>
                    /\ \A j \in PatternHits : ~KeyLess(HitKey(j), HitKey(k))
        ELSE /\ cr_regex_called
             /\ cr_col = NoCol

\* no alias; the first header matches only a lower-priority pattern than the
\* second, and the second is returned
C8_Witness ==
    /\ cr_pc = "done"
    /\ Len(cr_columns) = 2
    /\ ExactHits = {}
    /\ PatternHits = {1, 2}
    /\ HitKey(1)[1] > HitKey(2)[1]
    /\ cr_col = <<cr_columns[2]>>

(***************************************************************************)
(* Claims about the row loop and the save step.                            *)
(***************************************************************************)
RowIds == 0..(Len(df) - 1)
EntriesOf(r) == {n \in 1..Len(invalid_rows) : invalid_rows[n].row = r}

\* a cell that is missing or empty
IsBlank(cell) == isna(cell) \/ (cell.kind = "str" /\ strip(cell.s) = <<>>)

\* the three required input cells of row r: under the literal headers in
\* script.py, under the detected columns in script2.py
RequiredCells(r) ==
    IF script = 1
    THEN {RowGet(df_in[r + 1], h, NaN) : h \in {HOUSE, STREET_NAME, ZIP_CODE}}
    ELSE {RowGet(df_in[r + 1], c[1], NaN) :
             c \in {x \in {house_col, street_col, zip_col} : Truthy(x)}}

\* C1: every row ends mutated, or untouched, or with exactly one invalid-row
\* entry: no row has more than one entry, and a row with an entry has none of
\* its output fields changed from the input.
C1_OneOutcome ==
    \A r \in RowIds :
        /\ Cardinality(EntriesOf(r)) <= 1
        /\ EntriesOf(r) # {} => df[r + 1] = df_in[r + 1]

\* C1 restricted to script2.py, where it holds.
C1_OneOutcomeScript2 == script = 2 => C1_OneOutcome

\* C2: a row with a missing or empty required input value is skipped: the
\* site is never visited for it, it gets no invalid-row entry, no cell changes.
C2_MissingSkipped ==
    \A r \in RowIds :
        (\E cell \in RequiredCells(r) : IsBlank(cell)) =>
            /\ r \notin visited
            /\ EntriesOf(r) = {}
            /\ df[r + 1] = df_in[r + 1]

\* C2 restricted to script2.py, where it holds.
C2_MissingSkippedScript2 == script = 2 => C2_MissingSkipped

\* the handler printed its error message for row r
HasError(r) == \E n \in 1..Len(log) : log[n] = <<r, "error">>

\* C3: a fault at any step of a row is caught, one invalid-row entry with the
\* fault description as reason is recorded for that row and the loop goes on
\* to the next row; so the run visits every row in order and writes the
\* output file.
C3_FaultsCaught ==
    /\ pc # "crashed"
    /\ \A r \in RowIds :
          (HasError(r) /\ (r < index \/ pc # "except")) =>
              /\ Cardinality(EntriesOf(r)) = 1
              /\ \A n \in EntriesOf(r) : invalid_rows[n].reason[1] = "Script error: "
    /\ pc \in {"saved", "done"} =>
          /\ Len(written) = 1
          /\ \A r \in RowIds : \E n \in 1..Len(log) : log[n][1] = r
          /\ \A m, n \in 1..Len(log) :
                (m < n /\ log[m][2] # "summary" /\ log[n][2] # "summary")
                    => log[m][1] <= log[n][1]

\* C3 restricted to script2.py, where it holds.
C3_FaultsCaughtScript2 == script = 2 => C3_FaultsCaught

\* the site answered for the current row with no message, the row is done
\* and nothing was raised
MsgBlank == page.msg.kind = "none" \/ strip(page.msg.s) = <<>>
RowAnswered ==
    /\ pc = "loop"
    /\ index >= 0
    /\ page.row = index
    /\ page.loaded
    /\ MsgBlank
    /\ exc = NoExc

\* the existing value as the comparison normalizes it: script.py zero-fills
\* its text to the length of the scraped value (empty when the cell is NaN),
\* script2.py takes its safe text, trimmed
Normalized(cell, site_val) ==
    IF script = 1
    THEN (IF isna(cell) THEN <<>> ELSE zfill(str(cell), Len(site_val)))
    ELSE strip(safe_text(cell))

\* C4, as stated: after a row with no message, a non-empty result and no
\* fault, every output field equals the value scraped for it.
C4_FieldsEqualScraped ==
    (RowAnswered /\ \E f \in OutSet : site_data[f] # <<>>) =>
        \A f \in OutSet : df[index + 1][f] = Str(site_data[f])

\* C4, amended: after such a row every output field is either untouched, its
\* normalized existing value being equal to the scraped value, or holds the
\* scraped value.
C4_UntouchedOrOverwritten ==
    (RowAnswered /\ \E f \in OutSet : site_data[f] # <<>>) =>
        \A f \in OutSet :
            LET old == df_in[index + 1][f]
            IN  IF Normalized(old, site_data[f]) = site_data[f]
                THEN df[index + 1][f] = old
                ELSE df[index + 1][f] = Str(site_data[f])

\* a row where one field was overwritten and another left as it was although
\* its cell is not the scraped text
C4_Witness ==
    /\ RowAnswered
    /\ \E f \in OutSet : site_data[f] # <<>>
    /\ \E f, g \in OutSet :
          /\ df[index + 1][f] # df_in[index + 1][f]
          /\ df[index + 1][f] = Str(site_data[f])
          /\ df[index + 1][g] = df_in[index + 1][g]
          /\ df[index + 1][g] # Str(site_data[g])
          /\ site_data[g] # <<>>

\* the text the loop reads for a required input cell
ExpectedInput(r, which) ==
    IF script = 1
    THEN strip(str(RowGet(df_in[r + 1],
                          CASE which = "house" -> HOUSE
                            [] which = "street" -> STREET_NAME
                            [] which = "zip" -> ZIP_CODE, NaN)))
    ELSE CASE which = "house" -> clean_house(RowGet(df_in[r + 1], house_col[1], EmptyStr))
           [] which = "street" -> clean_street(RowGet(df_in[r + 1], street_col[1], EmptyStr))
           [] which = "zip" -> clean_zip(RowGet(df_in[r + 1], zip_col[1], EmptyStr))

\* C5: every invalid-row entry carries the index of the row that failed and
\* the house, street and zip values of that same row, and creating the entry
\* never fails.
C5_EntryFaithful ==
    /\ pc # "crashed"
    /\ \A n \in 1..Len(invalid_rows) :
          LET e == invalid_rows[n]
          IN  /\ e.row \in RowIds
              /\ e.row <= index
              /\ e.house = ExpectedInput(e.row, "house")
              /\ e.street = ExpectedInput(e.row, "street")
              /\ e.zip = ExpectedInput(e.row, "zip")

\* C5 restricted to script2.py, where it holds.
C5_EntryFaithfulScript2 == script = 2 => C5_EntryFaithful

\* C6: a row for which the site shows no message and all six scraped fields
\* are empty gets exactly one invalid-row entry, appended with the reason
\* "No polling info returned", and its output columns stay as they were.
C6_NoInfoRecorded ==
    (RowAnswered /\ \A f \in OutSet : site_data[f] = <<>>) =>
        /\ Cardinality(EntriesOf(index)) = 1
        /\ invalid_rows[Len(invalid_rows)].row = index
        /\ invalid_rows[Len(invalid_rows)].reason = <<"No polling info returned">>
        /\ df[index + 1] = df_in[index + 1]

\* such a row, where the page did show a text ("/5") in the election district
C6_Witness ==
    /\ RowAnswered
    /\ \A f \in OutSet : site_data[f] = <<>>
    /\ page.elems[ED].kind = "str"
    /\ EntriesOf(index) # {}
    /\ \E f \in OutSet : RowGet(df_in[index + 1], f, NaN) # NaN

\* the i-th numbered output name, i >= 1, and the plain one
PlainName ==
    splitext_root(file_path)
    \o (IF script = 1 THEN <<"_", "c", "o", "r", "r", "e", "c", "t", "e", "d">>
        ELSE <<"_", "w", "i", "t", "h", "_", "d", "i", "s", "t", "r", "i", "c", "t", "s">>)
NumberedName(n) == PlainName \o <<"(">> \o DecStr(n) \o <<")", ".", "x", "l", "s", "x">>
FreeName(files) ==
    IF PlainName \o XLSX \notin files THEN PlainName \o XLSX
    ELSE NumberedName(Min({n \in 1..(Cardinality(files) + 1) : NumberedName(n) \notin files}))

\* C7: the output path chosen did not exist when it was chosen: it is the base
\* name plus the suffix if that is free, else the name with "(i)" for the
\* smallest i >= 1 that is free; the search ends after at most as many renames
\* as there are existing files.
C7_FreePath ==
    /\ pc = "save_loop" => (i >= 1 /\ i <= Cardinality(existing) + 1)
    /\ pc \in {"saved", "done"} =>
          /\ Len(written) = 1
          /\ written[1].path = output_path
          /\ ~written[1].existed
          /\ output_path = FreeName(existing \ {output_path})

\* the plain name, "(1)" and "(2)" exist and "(3)" is written
C7_Witness ==
    /\ pc = "saved"
    /\ {PlainName \o XLSX, NumberedName(1), NumberedName(2)} \subseteq existing
    /\ output_path = NumberedName(3)
    /\ written[1].path = NumberedName(3)
    /\ i = 4

====
